---- MODULE Spec2Model ----
(***************************************************************************)
(* Model of nltools/analysis.py: the Predict class (algorithm and          *)
(* cross-validation selection, the predict pipeline and its outputs) and   *)
(* the Roc class (constructor validation and Roc.calculate).               *)
(*                                                                         *)
(* Calls into scikit-learn, nilearn, nibabel and pandas are abstracted to  *)
(* the effect the calling code relies on: a fit stores coefficients in the *)
(* fitted object, a cross-validation object is identified by its kind and  *)
(* its argument.  Python string comparisons written with `is` are taken    *)
(* between identifier-like literals, which CPython interns, so that they   *)
(* agree with equality.                                                    *)
(***************************************************************************)
EXTENDS Integers, Sequences, FiniteSets, TLC

(* ------------------------------ bounds -------------------------------- *)

\* largest fold count / label count offered in a cv_dict
MaxFolds == 3
\* longest input_values / binary_outcome vector given to Roc
MaxLen == 3
\* largest score in an input_values vector (scores are 0..MaxVal)
MaxVal == 1

(* --------------------------- Predict: state --------------------------- *)

VARIABLES
    constructed,      \* a Predict instance exists
    mask,             \* self.mask: "default" (bundled MNI152 mask) or "user"
    masker_mask,      \* mask_img handed to NiftiMasker: "None", "user", "default"
    has_subject_id,   \* attribute self.subject_id exists
    algorithm,        \* self.algorithm; "<unset>" when the attribute is missing
    prediction_type,  \* self.prediction_type; "<unset>" when missing
    predicter,        \* class of self.predicter; "<unset>" when missing
    coef,             \* coef_ held by the self.predicter object
    cv,               \* self.cv; kind "<unset>" when the attribute is missing
    fitted,           \* the last predict call fitted a model
    image,            \* weight map written by _save_image in the last predict call
    stats_saved,      \* _save_stats_output ran in the last predict call
    plot,             \* weight map drawn by _save_plot in the last predict call
    op,               \* last operation and its arguments
    exc               \* exception raised by the last operation, "none" if it returned

pvars == <<constructed, mask, masker_mask, has_subject_id, algorithm,
           prediction_type, predicter, coef, cv, fitted, image, stats_saved,
           plot, op, exc>>

(* --------------------------- Roc: state ------------------------------- *)

VARIABLES
    roc               \* the Roc instance, its last operation and its result

vars == <<pvars, roc>>

(* ------------------------- Predict: algorithms ------------------------ *)

\* sentinel for an attribute that was never assigned
Unset == "<unset>"

\* sentinel for the Python value None
None == "None"

\* name -> import string, the classifiers
algs_classify ==
    [svm |-> "sklearn.svm.SVC",
     logistic |-> "sklearn.linear_model.LogisticRegression",
     ridgeClassifier |-> "sklearn.linear_model.RidgeClassifier",
     ridgeClassifierCV |-> "sklearn.linear_model.RidgeClassifierCV",
     randomforestClassifier |-> "sklearn.ensemble.RandomForestClassifier"]

\* name -> import string, the regressors
algs_predict ==
    [svr |-> "sklearn.svm.SVR",
     linear |-> "sklearn.linear_model.LinearRegression",
     lasso |-> "sklearn.linear_model.Lasso",
     lassoCV |-> "sklearn.linear_model.LassoCV",
     ridge |-> "sklearn.linear_model.Ridge",
     ridgeCV |-> "sklearn.linear_model.RidgeCV",
     randomforest |-> "sklearn.ensemble.RandomForest"]

\* the classes that the imported scikit-learn modules define, among those
\* the tables name: sklearn.ensemble has RandomForestClassifier and
\* RandomForestRegressor and no attribute RandomForest
SklearnClasses ==
    {"sklearn.svm.SVC", "sklearn.svm.SVR",
     "sklearn.linear_model.LogisticRegression",
     "sklearn.linear_model.RidgeClassifier",
     "sklearn.linear_model.RidgeClassifierCV",
     "sklearn.linear_model.LinearRegression",
     "sklearn.linear_model.Lasso", "sklearn.linear_model.LassoCV",
     "sklearn.linear_model.Ridge", "sklearn.linear_model.RidgeCV",
     "sklearn.ensemble.RandomForestClassifier",
     "sklearn.ensemble.RandomForestRegressor"}

\* load_class(import_string): the class, or AttributeError from getattr
load_class(import_string) ==
    IF import_string \in SklearnClasses
    THEN [cls |-> import_string, exc |-> "none"]
    ELSE [cls |-> Unset, exc |-> "AttributeError"]

\* the names that the docstring of set_algorithm and its error message list
DocumentedAlgorithms ==
    {"svm", "svr", "linear", "logistic", "lasso", "lassopcr", "lassoCV",
     "ridge", "ridgeCV", "ridgeClassifier", "randomforest",
     "randomforestClassifier"}

\* the algorithm arguments tried: the documented names, the two names the
\* code knows beyond them, a name nobody knows, and None
AlgorithmArgs ==
    DocumentedAlgorithms \cup {"ridgeClassifierCV", "pcr", "bogus", None}

\* one fitted-object view of self: the fields set_algorithm touches
AlgState(a, t, p, c, e) ==
    [algorithm |-> a, prediction_type |-> t, predicter |-> p, coef |-> c,
     exc |-> e]

\* set_algorithm(name) applied to the current instance: the fields after
\* the call and the exception it raised.  self.algorithm is assigned first;
\* prediction_type is assigned before load_class runs; a new predicter
\* object holds no coefficients.
set_algorithm(name) ==
    IF name \in DOMAIN algs_classify
    THEN LET alg == load_class(algs_classify[name])
         IN  IF alg.exc = "none"
             THEN AlgState(name, "classification", alg.cls, "none", "none")
             ELSE AlgState(name, "classification", predicter, coef, alg.exc)
    ELSE IF name \in DOMAIN algs_predict
    THEN LET alg == load_class(algs_predict[name])
         IN  IF alg.exc = "none"
             THEN AlgState(name, "prediction", alg.cls, "none", "none")
             ELSE AlgState(name, "prediction", predicter, coef, alg.exc)
    ELSE IF name = "lassopcr"
    THEN AlgState(name, "prediction", "Pipeline(pca,lasso)", "none", "none")
    ELSE IF name = "pcr"
    THEN AlgState(name, "prediction", "Pipeline(pca,regress)", "none", "none")
    ELSE AlgState(name, prediction_type, predicter, coef, "ValueError")

(* --------------------- Predict: cross-validation ---------------------- *)

\* the keys tried in a cv_dict
CvKeys == {"kfold", "loso", "other"}

\* the cv_dict arguments tried.  A dict is given by the list its keys()
\* returns (no key twice) and by values()[0]; "notdict" is any value whose
\* type is not dict; None is an omitted argument.
CvArgs ==
    {[kind |-> None, keys |-> <<>>, val |-> 0],
     [kind |-> "notdict", keys |-> <<>>, val |-> 0],
     [kind |-> "dict", keys |-> <<>>, val |-> 0]}
    \cup {[kind |-> "dict", keys |-> <<k>>, val |-> v] :
            k \in CvKeys, v \in 2..MaxFolds}
    \cup {[kind |-> "dict", keys |-> <<kk[1], kk[2]>>, val |-> v] :
            kk \in {x \in CvKeys \X CvKeys : x[1] # x[2]}, v \in 2..MaxFolds}

\* self.cv when the attribute is missing
NoCv == [kind |-> Unset, arg |-> 0]

\* set_cv as it would be if a rejected cv_dict also dropped the scheme in
\* place
set_cv_dropping(cv_dict) ==
    IF cv_dict.kind = "dict"
    THEN IF Len(cv_dict.keys) = 0
         THEN [cv |-> cv, exc |-> "IndexError"]
         ELSE IF cv_dict.keys[1] = "kfold"
         THEN [cv |-> [kind |-> "kfold", arg |-> cv_dict.val], exc |-> "none"]
         ELSE IF cv_dict.keys[1] = "loso"
         THEN [cv |-> [kind |-> "loso", arg |-> cv_dict.val], exc |-> "none"]
         ELSE [cv |-> NoCv, exc |-> "ValueError"]
    ELSE [cv |-> NoCv, exc |-> "ValueError"]

\* set_cv(cv_dict) applied to the current instance: self.cv after the call
\* and the exception raised.  keys()[0] of an empty dict is an IndexError.
set_cv(cv_dict) ==
    IF cv_dict.kind = "dict"
    THEN IF Len(cv_dict.keys) = 0
         THEN [cv |-> cv, exc |-> "IndexError"]
         ELSE IF cv_dict.keys[1] = "kfold"
         THEN [cv |-> [kind |-> "kfold", arg |-> cv_dict.val], exc |-> "none"]
         ELSE IF cv_dict.keys[1] = "loso"
         THEN [cv |-> [kind |-> "loso", arg |-> cv_dict.val], exc |-> "none"]
         ELSE [cv |-> cv, exc |-> "ValueError"]
    ELSE [cv |-> cv, exc |-> "ValueError"]

(* ------------------------- Predict: operations ------------------------ *)

\* the mask arguments tried: omitted, a Nifti1Image, something else
MaskArgs == {None, "user", "notnifti"}

\* the record kept of the last operation on the Predict instance
Op(name, alg, cvarg, si, so, sp) ==
    [name |-> name, algorithm |-> alg, cv_dict |-> cvarg, save_images |-> si,
     save_output |-> so, save_plot |-> sp]

NoCvArg == [kind |-> None, keys |-> <<>>, val |-> 0]

\* the mask_img that __init__ hands to NiftiMasker: the argument as given
masker_mask_img(mask_arg, self_mask) == mask_arg

PInit ==
    /\ constructed = FALSE
    /\ mask = Unset
    /\ masker_mask = Unset
    /\ has_subject_id = FALSE
    /\ algorithm = Unset
    /\ prediction_type = Unset
    /\ predicter = Unset
    /\ coef = "none"
    /\ cv = NoCv
    /\ fitted = FALSE
    /\ image = "none"
    /\ stats_saved = FALSE
    /\ plot = "none"
    /\ op = Op("new", None, NoCvArg, FALSE, FALSE, FALSE)
    /\ exc = "none"

\* Predict.__init__ raised: no instance comes to exist
InitFails(alg, cvarg, e) ==
    /\ op' = Op("__init__", alg, cvarg, FALSE, FALSE, FALSE)
    /\ exc' = e
    /\ UNCHANGED <<constructed, mask, masker_mask, has_subject_id, algorithm,
                   prediction_type, predicter, coef, cv, fitted, image,
                   stats_saved, plot, roc>>

\* Predict.__init__(data, Y, subject_id, algorithm, cv_dict, mask)
PredictInit(mask_arg, data_is_nifti, y_matches, with_subject_id, alg, cvarg) ==
    /\ ~constructed
    /\ op.name = "new"
    /\ LET self_mask == IF mask_arg # None THEN mask_arg ELSE "default"
           a == IF alg # None THEN set_algorithm(alg)
                ELSE AlgState(algorithm, prediction_type, predicter, coef, "none")
           c == IF cvarg.kind # None THEN set_cv(cvarg)
                ELSE [cv |-> cv, exc |-> "none"]
       IN  IF mask_arg = "notnifti" THEN InitFails(alg, cvarg, "ValueError")
           ELSE IF ~data_is_nifti THEN InitFails(alg, cvarg, "ValueError")
           ELSE IF ~y_matches THEN InitFails(alg, cvarg, "ValueError")
           ELSE IF a.exc # "none" THEN InitFails(alg, cvarg, a.exc)
           ELSE IF c.exc # "none" THEN InitFails(alg, cvarg, c.exc)
           ELSE /\ constructed' = TRUE
                /\ mask' = self_mask
                /\ masker_mask' = masker_mask_img(mask_arg, self_mask)
                /\ has_subject_id' = with_subject_id
                /\ algorithm' = a.algorithm
                /\ prediction_type' = a.prediction_type
                /\ predicter' = a.predicter
                /\ coef' = a.coef
                /\ cv' = c.cv
                /\ op' = Op("__init__", alg, cvarg, FALSE, FALSE, FALSE)
                /\ exc' = "none"
                /\ UNCHANGED <<fitted, image, stats_saved, plot, roc>>

\* a direct call of Predict.set_algorithm(name)
SetAlgorithm(name) ==
    /\ constructed
    /\ \E a \in {set_algorithm(name)} :
           /\ algorithm' = a.algorithm
           /\ prediction_type' = a.prediction_type
           /\ predicter' = a.predicter
           /\ coef' = a.coef
           /\ exc' = a.exc
    /\ op' = Op("set_algorithm", name, NoCvArg, FALSE, FALSE, FALSE)
    /\ UNCHANGED <<constructed, mask, masker_mask, has_subject_id, cv, fitted,
                   image, stats_saved, plot, roc>>

\* a direct call of Predict.set_cv(cv_dict)
SetCv(cvarg) ==
    /\ constructed
    /\ \E c \in {set_cv(cvarg)} :
           /\ cv' = c.cv
           /\ exc' = c.exc
    /\ op' = Op("set_cv", None, cvarg, FALSE, FALSE, FALSE)
    /\ UNCHANGED <<constructed, mask, masker_mask, has_subject_id, algorithm,
                   prediction_type, predicter, coef, fitted, image,
                   stats_saved, plot, roc>>

\* the state Predict.predict leaves behind
PredictResult(a, c, cf, fit, img, st, pl, e) ==
    [a |-> a, cv |-> c, coef |-> cf, fitted |-> fit, image |-> img,
     stats_saved |-> st, plot |-> pl, exc |-> e]

\* the cross-validation part of predict (lines 122-162), entered with the
\* coefficients cf of the overall fit in the self.predicter object.
\* predicter_cv is that same object, so every fold fit overwrites them.
predict_cv(a, c, cf, img, save_output, save_plot) ==
    IF c.kind = Unset
    THEN PredictResult(a, c, cf, TRUE, img, FALSE, "none", "none")
    ELSE LET cf_cv == "fold"
         IN  IF ~save_output
             THEN PredictResult(a, c, cf_cv, TRUE, img, FALSE, "none", "none")
             ELSE IF ~has_subject_id
             THEN PredictResult(a, c, cf_cv, TRUE, img, FALSE, "none",
                                "AttributeError")
             ELSE PredictResult(a, c, cf_cv, TRUE, img, TRUE,
                                IF save_plot THEN cf_cv ELSE "none", "none")

\* Predict.predict as a function of the instance and the arguments
predict(alg, cvarg, save_images, save_output, save_plot) ==
    LET a == IF alg # None THEN set_algorithm(alg)
             ELSE AlgState(algorithm, prediction_type, predicter, coef, "none")
    IN  IF a.exc # "none"
        THEN PredictResult(a, cv, a.coef, FALSE, "none", FALSE, "none", a.exc)
        ELSE IF a.algorithm = Unset
        THEN PredictResult(a, cv, a.coef, FALSE, "none", FALSE, "none",
                           "AttributeError")
        ELSE IF a.algorithm = None
        THEN PredictResult(a, cv, a.coef, FALSE, "none", FALSE, "none",
                           "ValueError")
        ELSE IF a.predicter = Unset
        THEN PredictResult(a, cv, a.coef, FALSE, "none", FALSE, "none",
                           "AttributeError")
        ELSE LET cf == "overall"
                 img == IF save_images THEN cf ELSE "none"
                 c == IF cvarg.kind # None THEN set_cv(cvarg)
                      ELSE [cv |-> cv, exc |-> "none"]
             IN  IF c.exc # "none"
                 THEN PredictResult(a, c.cv, cf, TRUE, img, FALSE, "none", c.exc)
                 ELSE predict_cv(a, c.cv, cf, img, save_output, save_plot)

\* a call of Predict.predict(algorithm, cv_dict, save_images, save_output,
\* save_plot)
Predict(alg, cvarg, save_images, save_output, save_plot) ==
    /\ constructed
    /\ \E r \in {predict(alg, cvarg, save_images, save_output, save_plot)} :
           /\ algorithm' = r.a.algorithm
           /\ prediction_type' = r.a.prediction_type
           /\ predicter' = r.a.predicter
           /\ coef' = r.coef
           /\ cv' = r.cv
           /\ fitted' = r.fitted
           /\ image' = r.image
           /\ stats_saved' = r.stats_saved
           /\ plot' = r.plot
           /\ exc' = r.exc
    /\ op' = Op("predict", alg, cvarg, save_images, save_output, save_plot)
    /\ UNCHANGED <<constructed, mask, masker_mask, has_subject_id, roc>>

(* ------------------------------ Roc: data ----------------------------- *)

\* Scores are integers.  Criterion values and thresholds are rationals
\* <<numerator, denominator>> with a positive denominator, so that the
\* evenly spaced default criterion values are exact.
Rat(n, d) == <<n, d>>

\* x >= c for a score x and a rational c
ScoreGe(x, c) == x * c[2] >= c[1]

\* a vector of booleans is kept as 0/1 values with dtype "bool"; any other
\* vector of numbers has dtype "int"
Vec(dtype, vals) == [dtype |-> dtype, vals |-> vals]

NoVec == Vec("none", <<>>)

\* an attribute holding a rational that was never assigned
NoRat == Rat(0, 0)

\* the one element of a singleton set
The(S) == CHOOSE x \in S : TRUE

\* all sequences over S of length n
RECURSIVE SeqsOfLen(_, _)
SeqsOfLen(S, n) ==
    IF n = 0 THEN {<<>>}
    ELSE {Append(q, x) : q \in SeqsOfLen(S, n - 1), x \in S}

\* minimum and maximum of a sequence of integers
SeqMin(q) == CHOOSE x \in {q[i] : i \in 1..Len(q)} : \A i \in 1..Len(q) : x <= q[i]

SeqMax(q) == CHOOSE x \in {q[i] : i \in 1..Len(q)} : \A i \in 1..Len(q) : x >= q[i]

\* the positions from i on of a 0/1 vector that hold b, in order
RECURSIVE Where(_, _, _)
Where(vals, b, i) ==
    IF i > Len(vals) THEN <<>>
    ELSE IF vals[i] = b THEN <<i>> \o Where(vals, b, i + 1)
    ELSE Where(vals, b, i + 1)

\* Python's any(v): some element is truthy
any(vals) == \E i \in 1..Len(vals) : vals[i] # 0

\* the threshold types the constructor accepts
thr_type == {"optimal_overall", "optimal_balanced", "minimum_sdt_bias"}

\* criterion values per observation in the default grid
PointsPerObservation == 50

\* np.linspace(lo, hi, num), num >= 2
linspace(lo, hi, num) ==
    [i \in 1..num |-> Rat(lo * (num - 1) + (i - 1) * (hi - lo), num - 1)]

(* --------------------------- Roc: constructor ------------------------- *)

\* the record kept of the last operation on the Roc instance
RocOp(name, thr, fc, bal, crit_given, before, outcome) ==
    [name |-> name, threshold_type |-> thr, forced_choice |-> fc,
     balanced_acc |-> bal, criterion_given |-> crit_given,
     input_before |-> before, outcome |-> outcome]

\* the Roc instance: its attributes, how far the last call got (at) and
\* the exception it raised
RocObj(st, iv, bo, thr, fc, crit, cthr, acc, o, at, e) ==
    [state |-> st, input_values |-> iv, binary_outcome |-> bo,
     threshold_type |-> thr, forced_choice |-> fc, criterion_values |-> crit,
     class_thr |-> cthr, accuracy |-> acc, op |-> o, at |-> at, exc |-> e]

\* Roc.__init__(input_values, binary_outcome, threshold_type, forced_choice)
roc_init(iv, bo, thr, fc) ==
    LET o == RocOp("__init__", thr, fc, FALSE, FALSE, iv, bo)
        failed == RocObj("failed", <<>>, NoVec, Unset, FALSE, <<>>, NoRat,
                         NoRat, o, "check", "ValueError")
    IN  IF Len(iv) # Len(bo.vals) THEN failed
        ELSE IF ~any(bo.vals) THEN failed
        ELSE IF thr \notin thr_type THEN failed
        ELSE RocObj("ready", iv, bo, thr, fc, <<>>, NoRat, NoRat, o, "done",
                    "none")

RocInit(iv, bo, thr, fc) ==
    /\ roc.state = "new"
    /\ roc' = roc_init(iv, bo, thr, fc)
    /\ UNCHANGED pvars

(* ---------------------------- Roc: calculate -------------------------- *)

\* the number of elements of a set of positions
Count(S) == Cardinality(S)

\* the criterion values of a call: the ones given, or the default grid from
\* the smallest to the largest score (<<>> stands for an omitted argument)
criterion_for(iv, bo, crit_arg) ==
    IF crit_arg # <<>> THEN crit_arg
    ELSE The({linspace(lo, hi, PointsPerObservation * Len(bo)) :
              lo \in {SeqMin(iv)}, hi \in {SeqMax(iv)}})

\* mn_scores of the forced-choice transformation, one per positive
mn_scores(iv, pos, neg) ==
    [k \in 1..Len(pos) |-> (iv[pos[k]] + iv[pos[k]]) \div 2]

\* numpy can subtract mn_scores (one per positive) from the negatives and
\* store the result in them: equal lengths, or a single positive
broadcasts(pos, neg) == Len(neg) = Len(pos) \/ Len(pos) = 1

\* element k of a vector of length len used where numpy broadcasts it
bc(len, k) == IF len = 1 THEN 1 ELSE k

\* the position of i in the sequence of positions q
Rank(q, i) == CHOOSE k \in 1..Len(q) : q[k] = i

\* input_values after line 452: the positives minus mn_scores
centre_positives(iv, pos, mn) ==
    [i \in 1..Len(iv) |->
        IF \E k \in 1..Len(pos) : pos[k] = i
        THEN iv[i] - mn[Rank(pos, i)] ELSE iv[i]]

\* input_values after line 453: the negatives minus mn_scores
centre_negatives(iv, pos, neg, mn) ==
    [i \in 1..Len(iv) |->
        IF \E k \in 1..Len(neg) : neg[k] = i
        THEN iv[i] - mn[bc(Len(pos), Rank(neg, i))] ELSE iv[i]]

\* the number of observations at the positions q whose score is >= c
CountGe(iv, q, c) == Count({k \in 1..Len(q) : ScoreGe(iv[q[k]], c)})

\* np.argmax(v): the first position of the largest element
argmax(v) ==
    The({(CHOOSE i \in 1..Len(v) :
                v[i] = m /\ \A j \in 1..(i - 1) : v[j] # m) :
         m \in {SeqMax(v)}})

\* sm as it would be if the false positives counted as correct
overall_sm_with_fpr(tp, fp, n_true, n_false) ==
    [i \in 1..Len(tp) |->
        (tp[i] * n_true) \div n_true + (fp[i] * n_false) \div n_false]

\* sm of the optimal_overall policy, per criterion value: tpr*n_true +
\* (1-fpr)*n_false with tpr = tp/n_true and fpr = fp/n_false
overall_sm(tp, fp, n_true, n_false) ==
    [i \in 1..Len(tp) |->
        (tp[i] * n_true) \div n_true
        + ((n_false - fp[i]) * n_false) \div n_false]

\* the accuracy of a call that reached line 510
accuracy_of(balanced_acc, n_true, n_false, tp, fp, n_misclass, n) ==
    IF balanced_acc
    THEN Rat(tp * n_false + (n_false - fp) * n_true, 2 * n_true * n_false)
    ELSE Rat(n - n_misclass, n)

\* lines 493-513 of Roc.calculate: the outputs and the accuracy, once
\* class_thr is cthr
calculate_output(self, o, crit, fc, iv, pos, neg, thr1, cthr) ==
    LET n_true == Len(pos)
        n_false == Len(neg)
        n_tp == CountGe(iv, pos, cthr)
        n_fp == CountGe(iv, neg, cthr)
        len == IF fc THEN (IF n_false > n_true THEN n_false ELSE n_true)
               ELSE Len(iv)
        n_misclass ==
            IF fc
            THEN Count({k \in 1..len :
                    \/ ScoreGe(iv[neg[bc(n_false, k)]], cthr)
                    \/ ~ScoreGe(iv[pos[bc(n_true, k)]], cthr)})
            ELSE n_fp + (n_true - n_tp)
        out(acc, at, e) ==
            RocObj("ready", iv, self.binary_outcome, thr1, fc, crit, cthr,
                   acc, o, at, e)
    IN  IF cthr = NoRat
        THEN out(self.accuracy, "output", "AttributeError")
        ELSE IF n_tp + n_fp = 0
        THEN out(self.accuracy, "ppv", "ZeroDivisionError")
        ELSE out(accuracy_of(o.balanced_acc, n_true, n_false, n_tp, n_fp,
                             n_misclass, len),
                 "done", "none")

\* lines 456-491 of Roc.calculate: the rates per criterion value and the
\* threshold, once input_values is iv
calculate_threshold(self, o, crit, fc, iv, pos, neg, bias_pick) ==
    LET n_true == Len(pos)
        n_false == Len(neg)
        thr0 == IF fc THEN Rat(0, 1) ELSE self.class_thr
        out(thr, at, e) ==
            RocObj("ready", iv, self.binary_outcome, thr, fc, crit, thr0,
                   self.accuracy, o, at, e)
    IN  IF n_false = 0
        THEN out(self.threshold_type, "rates", "ZeroDivisionError")
        ELSE IF fc
        THEN calculate_output(self, o, crit, fc, iv, pos, neg,
                              self.threshold_type, thr0)
        ELSE IF o.threshold_type = "optimal_balanced"
        THEN out(o.threshold_type, "threshold", "NameError")
        ELSE IF o.threshold_type = "optimal_overall"
        THEN The({calculate_output(self, o, crit, fc, iv, pos, neg,
                                   o.threshold_type, crit[argmax(sm)]) :
                  sm \in {overall_sm(tp, fp, nt, nf) :
                    tp \in {[i \in 1..Len(crit) |-> CountGe(iv, pos, crit[i])]},
                    fp \in {[i \in 1..Len(crit) |-> CountGe(iv, neg, crit[i])]},
                    nt \in {n_true}, nf \in {n_false}}})
        ELSE IF o.threshold_type = "minimum_sdt_bias"
        THEN calculate_output(self, o, crit, fc, iv, pos, neg,
                              o.threshold_type, crit[bias_pick])
        ELSE calculate_output(self, o, crit, fc, iv, pos, neg,
                              o.threshold_type, thr0)

\* lines 449-454 of Roc.calculate: the forced-choice transformation
calculate_forced(self, o, crit, fc, pos, neg, bias_pick) ==
    IF ~fc
    THEN calculate_threshold(self, o, crit, fc, self.input_values, pos, neg,
                             bias_pick)
    ELSE The({IF ~broadcasts(pos, neg)
              THEN RocObj("ready", iv1, self.binary_outcome,
                          self.threshold_type, fc, crit, self.class_thr,
                          self.accuracy, o, "forced_choice", "ValueError")
              ELSE The({calculate_threshold(self, o, crit, fc, iv, pos, neg,
                                            bias_pick) :
                        iv \in {centre_negatives(iv1, pos, neg, mn)}}) :
              mn \in {mn_scores(self.input_values, pos, neg)},
              iv1 \in {centre_positives(self.input_values, pos,
                         mn_scores(self.input_values, pos, neg))}})

\* Roc.calculate(criterion_values, threshold_type, forced_choice,
\* balanced_acc) on the instance self, input_values and binary_outcome
\* omitted and binary_outcome a boolean vector.  bias_pick is the position
\* np.argmin(abs(c_bias)) selects under minimum_sdt_bias; the normal
\* quantiles behind it are not computed, see bias_candidates.  The calls of
\* sklearn's auc and scipy's binom_test are left out.
calculate(self, crit_arg, threshold_type, forced_choice, balanced_acc, bias_pick) ==
    The({calculate_forced(
            self,
            RocOp("calculate", threshold_type, forced_choice, balanced_acc,
                  crit_arg # <<>>, self.input_values, self.binary_outcome),
            crit, forced_choice \/ self.forced_choice, pos, neg, bias_pick) :
         crit \in {criterion_for(self.input_values,
                                 self.binary_outcome.vals, crit_arg)},
         pos \in {Where(self.binary_outcome.vals, 1, 1)},
         neg \in {Where(self.binary_outcome.vals, 0, 1)}})

\* the positions np.argmin(abs(c_bias)) can return: c_bias[i] is a function
\* of (tpr[i], fpr[i]) and argmin returns the first position of the
\* minimum, so it is the first position of some (tpr, fpr) pair
bias_candidates(self, crit_arg) ==
    UNION {{i \in 1..Len(r) : \A j \in 1..(i - 1) : r[j] # r[i]} :
           r \in {The({[i \in 1..Len(crit) |->
                          <<CountGe(self.input_values, pos, crit[i]),
                            CountGe(self.input_values, neg, crit[i])>>] :
                       crit \in {criterion_for(self.input_values,
                                   self.binary_outcome.vals, crit_arg)},
                       pos \in {Where(self.binary_outcome.vals, 1, 1)},
                       neg \in {Where(self.binary_outcome.vals, 0, 1)}})}}

\* a call of Roc.calculate; an instance is followed through its constructor
\* and its first call of calculate
Calculate(crit_arg, threshold_type, forced_choice, balanced_acc) ==
    /\ roc.state = "ready"
    /\ roc.op.name = "__init__"
    /\ roc.binary_outcome.dtype = "bool"
    /\ \E bias_pick \in
            IF forced_choice \/ roc.forced_choice
                 \/ threshold_type # "minimum_sdt_bias"
            THEN {1} ELSE bias_candidates(roc, crit_arg) :
          \E r \in {calculate(roc, crit_arg, threshold_type, forced_choice,
                              balanced_acc, bias_pick)} : roc' = r
    /\ UNCHANGED pvars

\* the score vectors tried, of length 1..MaxLen
ScoreVectors == UNION {SeqsOfLen(0..MaxVal, n) : n \in 1..MaxLen}

\* the outcome vectors tried: the boolean vectors, and the integer vectors
\* that hold something other than 0 and 1
OutcomeVectors ==
    {Vec("bool", v) : v \in UNION {SeqsOfLen({0, 1}, n) : n \in 1..MaxLen}}
    \cup {Vec("int", v) :
            v \in {w \in UNION {SeqsOfLen({0, 1, 2}, n) : n \in 1..MaxLen} :
                    \E i \in 1..Len(w) : w[i] = 2}}

\* the criterion_values arguments tried: omitted, two values in ascending
\* and in descending order, and a value above every score
CriterionArgs ==
    {<<>>, <<Rat(0, 1), Rat(1, 1)>>, <<Rat(1, 1), Rat(0, 1)>>,
     <<Rat(MaxVal + 1, 1), Rat(0, 1)>>}

\* the threshold_type arguments tried in the constructor: the default,
\* another type it accepts, one it rejects
InitThresholdTypes == {"optimal_overall", "minimum_sdt_bias", "other"}

DoRocInit ==
    /\ roc.state = "new"
    /\ \E iv \in ScoreVectors, bo \in OutcomeVectors,
          thr \in InitThresholdTypes, fc \in BOOLEAN :
            RocInit(iv, bo, thr, fc)

DoCalculate ==
    /\ roc.op.name = "__init__"
    /\ \E crit_arg \in CriterionArgs, thr \in thr_type, fc \in BOOLEAN,
          bal \in BOOLEAN : Calculate(crit_arg, thr, fc, bal)

\* the algorithm arguments tried together with the other operations: an
\* omitted one, a name that loads, the name whose class does not load, an
\* unknown name
ShortAlgorithmArgs == {None, "svm", "randomforest", "bogus"}

\* the cv_dict arguments tried in __init__ and in predict: an omitted one, a
\* non-dict, the empty dict, one dict of each key
ShortCvArgs ==
    {c \in CvArgs : Len(c.keys) <= 1 /\ c.val \in {0, 2}}

DoPredictInit ==
    /\ op.name = "new"
    /\ \E m \in MaskArgs, d \in BOOLEAN, y \in BOOLEAN, sid \in BOOLEAN,
          alg \in ShortAlgorithmArgs, cvarg \in ShortCvArgs :
            PredictInit(m, d, y, sid, alg, cvarg)

DoSetAlgorithm ==
    constructed /\ \E name \in ShortAlgorithmArgs : SetAlgorithm(name)

DoSetAnyAlgorithm ==
    constructed /\ \E name \in AlgorithmArgs : SetAlgorithm(name)

DoSetCv == constructed /\ \E cvarg \in CvArgs : SetCv(cvarg)

DoPredict ==
    /\ constructed
    /\ \E alg \in ShortAlgorithmArgs, cvarg \in ShortCvArgs, si \in BOOLEAN,
          so \in BOOLEAN, sp \in BOOLEAN : Predict(alg, cvarg, si, so, sp)

\* the Roc instance before its constructor ran
RocNew ==
    RocObj("new", <<>>, NoVec, Unset, FALSE, <<>>, NoRat, NoRat,
           RocOp("new", Unset, FALSE, FALSE, FALSE, <<>>, NoVec), "done", "none")

\* no Predict and no Roc instance constructed yet
Init == PInit /\ roc = RocNew

PNext == DoPredictInit \/ DoSetAlgorithm \/ DoPredict

\* the Predict instance under construction, algorithm selection and predict
SpecPredict == Init /\ [][PNext]_vars

ANext == DoPredictInit \/ DoSetAnyAlgorithm \/ DoSetCv

\* the Predict instance under algorithm and cross-validation selection, with
\* every algorithm name
SpecAlgorithm == Init /\ [][ANext]_vars

RNext == DoRocInit \/ DoCalculate

\* the Roc instance under construction and calculate
SpecRoc == Init /\ [][RNext]_vars

(* ======================= properties: Predict ========================== *)

\* the classifiers among the documented algorithm names
DocumentedClassifiers ==
    {"svm", "logistic", "ridgeClassifier", "randomforestClassifier"}

\* C1: set_algorithm(name) completes for exactly the documented names, sets
\* self.predicter to a new predicter and prediction_type to
\* 'classification' for the documented classifiers and to 'prediction' for
\* the other documented names, and raises ValueError for every other name.
C1_DocumentedNamesExactly ==
    op.name = "set_algorithm" =>
        IF op.algorithm \in DocumentedAlgorithms
        THEN /\ exc = "none"
             /\ predicter # Unset
             /\ coef = "none"
             /\ prediction_type =
                  IF op.algorithm \in DocumentedClassifiers
                  THEN "classification" ELSE "prediction"
        ELSE exc = "ValueError"

\* C2: predict with no algorithm argument, on an instance that was never
\* given one, raises ValueError before any fit and before any output.
C2_NoAlgorithmIsValueError ==
    (op.name = "predict" /\ op.algorithm = None /\ algorithm = Unset) =>
        /\ exc = "ValueError"
        /\ ~fitted
        /\ image = "none"
        /\ ~stats_saved
        /\ plot = "none"

\* C3: set_cv sets self.cv to the k-fold split with n folds for
\* {'kfold': n} and to the leave-one-label-out split for {'loso': labels};
\* for a non-dict, and for a dict whose keys are neither 'kfold' nor
\* 'loso', it raises ValueError and self.cv keeps its value.
C3_SetCv ==
    [][op'.name = "set_cv" =>
        /\ op'.cv_dict.kind = "dict" /\ op'.cv_dict.keys = <<"kfold">> =>
             /\ exc' = "none"
             /\ cv' = [kind |-> "kfold", arg |-> op'.cv_dict.val]
        /\ op'.cv_dict.kind = "dict" /\ op'.cv_dict.keys = <<"loso">> =>
             /\ exc' = "none"
             /\ cv' = [kind |-> "loso", arg |-> op'.cv_dict.val]
        /\ op'.cv_dict.kind # "dict" =>
             /\ exc' = "ValueError"
             /\ cv' = cv
        /\ ( /\ op'.cv_dict.kind = "dict"
             /\ op'.cv_dict.keys # <<>>
             /\ \A i \in 1..Len(op'.cv_dict.keys) :
                    op'.cv_dict.keys[i] \notin {"kfold", "loso"} ) =>
             /\ exc' = "ValueError"
             /\ cv' = cv
      ]_vars

\* C3 witness: an invalid cv_dict was rejected and a cross-validation
\* scheme set earlier is still in place
C3_Witness ==
    /\ op.name = "set_cv"
    /\ op.cv_dict.kind = "dict"
    /\ op.cv_dict.keys = <<"other">>
    /\ exc = "ValueError"
    /\ cv.kind = "loso"

\* C4: the mask the masker flattens with is self.mask, the mask given or
\* the bundled default
C4_MaskerUsesSelfMask ==
    constructed => masker_mask = mask

\* C7: in a predict call that returns, each flag alone decides its output
C7_FlagsIndependent ==
    (op.name = "predict" /\ exc = "none") =>
        /\ (image # "none") <=> op.save_images
        /\ stats_saved <=> op.save_output
        /\ (plot # "none") <=> op.save_plot

\* C8: the weight map written to file and the weight map drawn in one
\* predict call are the same, the map of the overall fit
C8_SameWeightMap ==
    (op.name = "predict" /\ image # "none" /\ plot # "none") =>
        /\ image = plot
        /\ plot = "overall"

(* ========================= properties: Roc ============================ *)

\* the threshold types the documentation names
DocumentedThresholdTypes ==
    {"optimal_overall", "optimal_balanced", "minimum_sdt_bias"}

\* C5: the constructor raises ValueError for vectors of different lengths,
\* for an outcome vector that is not boolean and for an unknown
\* threshold_type, and otherwise stores its four arguments unchanged
C5_ConstructorValidates ==
    roc.op.name = "__init__" =>
        IF \/ Len(roc.op.input_before) # Len(roc.op.outcome.vals)
           \/ roc.op.outcome.dtype # "bool"
           \/ roc.op.threshold_type \notin DocumentedThresholdTypes
        THEN roc.exc = "ValueError" /\ roc.state = "failed"
        ELSE /\ roc.exc = "none"
             /\ roc.state = "ready"
             /\ roc.input_values = roc.op.input_before
             /\ roc.binary_outcome = roc.op.outcome
             /\ roc.threshold_type = roc.op.threshold_type
             /\ roc.forced_choice = roc.op.forced_choice

\* the outcome vector holds both classes
BothClasses(bo) ==
    (\E i \in 1..Len(bo) : bo[i] = 1) /\ (\E i \in 1..Len(bo) : bo[i] = 0)

\* C6: calculate without forced choice completes for each documented
\* threshold type and sets class_thr to one of criterion_values (stated for
\* outcomes of both classes and the default criterion values)
C6_ThresholdTypesComplete ==
    ( /\ roc.op.name = "calculate"
      /\ ~roc.forced_choice
      /\ roc.op.threshold_type \in DocumentedThresholdTypes
      /\ ~roc.op.criterion_given
      /\ BothClasses(roc.binary_outcome.vals) ) =>
        /\ roc.exc = "none"
        /\ \E i \in 1..Len(roc.criterion_values) :
               roc.class_thr = roc.criterion_values[i]

\* the number of observations a threshold c classifies correctly:
\* positives with a score >= c and negatives with a score < c
Correct(iv, bo, c) ==
    Cardinality({k \in 1..Len(iv) : bo[k] = 1 /\ iv[k] * c[2] >= c[1]})
    + Cardinality({k \in 1..Len(iv) : bo[k] = 0 /\ iv[k] * c[2] < c[1]})

\* i is the first position of corr that holds its maximum
FirstMaximiser(corr, i) ==
    /\ \A j \in 1..Len(corr) : corr[j] <= corr[i]
    /\ \A j \in 1..(i - 1) : corr[j] < corr[i]

\* the last call assigned class_thr under optimal_overall, without forced
\* choice
OverallCall ==
    /\ roc.op.name = "calculate"
    /\ roc.op.threshold_type = "optimal_overall"
    /\ ~roc.forced_choice
    /\ roc.at \in {"ppv", "done"}

C10_ForcedChoiceCentres ==
    ( /\ roc.op.name = "calculate"
      /\ roc.forced_choice
      /\ roc.at = "done" ) =>
        \A pos \in {Where(roc.binary_outcome.vals, 1, 1)},
           neg \in {Where(roc.binary_outcome.vals, 0, 1)} :
            Len(pos) = Len(neg) =>
                /\ roc.class_thr = Rat(0, 1)
                /\ \A k \in 1..Len(pos) :
                      /\ roc.input_values[pos[k]]
                           + roc.input_values[neg[k]] = 0
                      /\ roc.input_values[pos[k]] - roc.input_values[neg[k]]
                           = roc.op.input_before[pos[k]]
                               - roc.op.input_before[neg[k]]

====
